---- MODULE Spec2Model ----
(***************************************************************************)
(* A model of the definition and hover layer of vscode-azurearmtools:      *)
(*   src/src/VariableDefinition.ts  CachedValue, TopLevelVariableDefinition,*)
(*                                  TopLevelCopyBlockVariableDefinition     *)
(*   src/src/Hover.ts               UserFunctionInfo, UserNamespaceInfo     *)
(*                                                                         *)
(* JavaScript strings are tuples of one-character strings, so that         *)
(* toLowerCase, template literals and join are computed, not assumed.      *)
(* Every JavaScript value that may be null or undefined is a record with a *)
(* `kind` field.  Json.Value nodes carry an `id` (the identity of the      *)
(* object: reference equality is equality of ids) and a `span`.            *)
(***************************************************************************)
EXTENDS Naturals, Sequences, FiniteSets, TLC

VARIABLES
    cell,        \* a free-standing CachedValue<T>: [_isCached, _value]
    log,         \* one entry per getOrCacheValue call made on `cell`
    constructed, \* the call of TopLevelVariableDefinition's constructor
    _property,   \* the Json.Property a TopLevelVariableDefinition wraps
    _nameValue,  \* that definition's private CachedValue
    allocs,      \* number of objects the definition layer has allocated
    reads,       \* the values returned by the reads of `value`, in order
    created,     \* the last createIfValid call: its argument and result
    hover,       \* the last hover request: its inputs and the text returned
    callers,     \* the callers inside getOrCacheValue on `cell`, statement by statement
    stores,      \* the callers whose assignment to cell._value ran, in order
    overlapped,  \* a caller read the flag while another was between reading and setting it
    files,       \* the file system: what there is at each path
    setting,     \* the armTools.languageServer.path setting
    started      \* the call of startArmLanguageServer: what it did

raceVars == <<callers, stores, overlapped>>
serverVars == <<files, setting, started>>
vars == <<cell, log, constructed, _property, _nameValue, allocs, reads, created, hover,
          raceVars, serverVars>>

(***************************************************************************)
(* Bounds of the model.                                                    *)
(***************************************************************************)
MaxCalls == 4      \* getOrCacheValue calls on the free-standing cell
MaxReads == 2      \* reads of TopLevelVariableDefinition.value
MaxCallers == 2    \* callers inside getOrCacheValue at once

(***************************************************************************)
(* JavaScript values.                                                      *)
(***************************************************************************)
null == [kind |-> "null"]
undefined == [kind |-> "undefined"]
JsNumber(n) == [kind |-> "number", value |-> n]

\* JavaScript truthiness of null, undefined, strings and objects.
truthy(v) ==
    CASE v.kind \in {"null", "undefined"} -> FALSE
      [] v.kind = "string" -> v.value # <<>>
      [] OTHER -> TRUE

(***************************************************************************)
(* CachedValue<T>                                                          *)
(*                                                                         *)
(* calculateValue is given by what invoking it would do: throw, or return  *)
(* a value.  The result says whether it was invoked, whether the call      *)
(* threw, the value returned and the cell afterwards.                      *)
(***************************************************************************)
NewCachedValue == [_isCached |-> FALSE, _value |-> undefined]

\* A getOrCacheValue that forgets to set the flag.
getOrCacheValueNoFlag(this, calculateValue) ==
    IF ~this._isCached
    THEN IF calculateValue.threw
         THEN [cell |-> this, invoked |-> TRUE, threw |-> TRUE, ret |-> undefined]
         ELSE [cell |-> [this EXCEPT !._value = calculateValue.value],
               invoked |-> TRUE, threw |-> FALSE, ret |-> calculateValue.value]
    ELSE [cell |-> this, invoked |-> FALSE, threw |-> FALSE, ret |-> this._value]

\* A getOrCacheValue that sets the flag before it calls calculateValue.
getOrCacheValueFlagFirst(this, calculateValue) ==
    IF ~this._isCached
    THEN IF calculateValue.threw
         THEN [cell |-> [this EXCEPT !._isCached = TRUE],
               invoked |-> TRUE, threw |-> TRUE, ret |-> undefined]
         ELSE [cell |-> [_isCached |-> TRUE, _value |-> calculateValue.value],
               invoked |-> TRUE, threw |-> FALSE, ret |-> calculateValue.value]
    ELSE [cell |-> this, invoked |-> FALSE, threw |-> FALSE, ret |-> this._value]

getOrCacheValue(this, calculateValue) ==
    IF ~this._isCached
    THEN IF calculateValue.threw
         THEN \* the assignment to _value never happens
              [cell |-> this, invoked |-> TRUE, threw |-> TRUE, ret |-> undefined]
         ELSE LET assigned == [this EXCEPT !._value = calculateValue.value]
                  flagged == [assigned EXCEPT !._isCached = TRUE]
              IN [cell |-> flagged, invoked |-> TRUE, threw |-> FALSE,
                  ret |-> flagged._value]
    ELSE [cell |-> this, invoked |-> FALSE, threw |-> FALSE, ret |-> this._value]

\* The compute functions a caller may pass: one that throws, and ones that
\* return undefined, null or a number.
CellValues == {undefined, null, JsNumber(1), JsNumber(2)}
ComputeFns ==
    {[threw |-> TRUE, value |-> undefined]}
        \cup {[threw |-> FALSE, value |-> v] : v \in CellValues}

(***************************************************************************)
(* Strings                                                                 *)
(***************************************************************************)
UpperCaseLetters ==
    <<"A", "B", "C", "D", "E", "F", "G", "H", "I", "J", "K", "L", "M",
      "N", "O", "P", "Q", "R", "S", "T", "U", "V", "W", "X", "Y", "Z">>
LowerCaseLetters ==
    <<"a", "b", "c", "d", "e", "f", "g", "h", "i", "j", "k", "l", "m",
      "n", "o", "p", "q", "r", "s", "t", "u", "v", "w", "x", "y", "z">>

\* The other characters that occur in the model's strings.
OtherCharacters == {" ", ".", ",", "(", ")", "[", "]", "*", "-", ":", "\n"}

toLowerCaseChar(c) ==
    IF \E i \in 1..Len(UpperCaseLetters) : UpperCaseLetters[i] = c
    THEN LowerCaseLetters[CHOOSE i \in 1..Len(UpperCaseLetters) : UpperCaseLetters[i] = c]
    ELSE c

\* toLowerCaseChar, tabulated
LowerCaseOf ==
    [c \in {UpperCaseLetters[i] : i \in 1..Len(UpperCaseLetters)}
             \cup {LowerCaseLetters[i] : i \in 1..Len(LowerCaseLetters)}
             \cup OtherCharacters
        |-> toLowerCaseChar(c)]

\* String.prototype.toLowerCase
toLowerCase(s) == [i \in 1..Len(s) |-> LowerCaseOf[s[i]]]

\* A JavaScript string where null is possible too (string | null).
JsString(s) == [kind |-> "string", value |-> s]

(***************************************************************************)
(* Json.Value nodes, Json.Property and the narrowing helpers.              *)
(***************************************************************************)
StringValue(id, span, unquotedValue) ==
    [kind |-> "StringValue", id |-> id, span |-> span, unquotedValue |-> unquotedValue]
NumberValue(id, span, n) ==
    [kind |-> "NumberValue", id |-> id, span |-> span, n |-> n]
NullValue(id, span) ==
    [kind |-> "NullValue", id |-> id, span |-> span]
ArrayValue(id, span, elements) ==
    [kind |-> "ArrayValue", id |-> id, span |-> span, elements |-> elements]
\* properties is the Property[] the object holds: [id, items]
ObjectValue(id, span, properties) ==
    [kind |-> "ObjectValue", id |-> id, span |-> span, properties |-> properties]
Property(span, nameValue, value) ==
    [kind |-> "Property", span |-> span, nameValue |-> nameValue, value |-> value]

asObjectValue(v) == IF v.kind = "ObjectValue" THEN v ELSE null
asArrayValue(v) == IF v.kind = "ArrayValue" THEN v ELSE null
asStringValue(v) == IF v.kind = "StringValue" THEN v ELSE null

\* What a method call on null or undefined raises.
TypeError == [kind |-> "TypeError"]
IsTypeError(v) == v.kind = "TypeError"

SetMax(S) == CHOOSE m \in S : \A x \in S : x <= m

\* ObjectValue.getPropertyValue: the value of the property of that name,
\* compared case-insensitively (of several, the last), or null.
getPropertyValue(this, propertyName) ==
    IF this.kind # "ObjectValue"
    THEN TypeError
    ELSE LET items == this.properties.items
             found == {i \in 1..Len(items) :
                          toLowerCase(items[i].nameValue.unquotedValue)
                              = toLowerCase(propertyName)}
         IN IF found = {} THEN null ELSE items[SetMax(found)].value

templateKeys_copy == <<"c", "o", "p", "y">>
templateKeys_loopVarName == <<"n", "a", "m", "e">>
templateKeys_loopVarInput == <<"i", "n", "p", "u", "t">>

\* The id of the k-th object allocated after parsing.
NewId(k) == <<"new", k>>

(***************************************************************************)
(* TopLevelVariableDefinition.value                                        *)
(***************************************************************************)
RECURSIVE SelectItems(_, _)
SelectItems(items, keep) ==
    IF items = <<>> THEN <<>>
    ELSE (IF Head(items) \in keep THEN <<Head(items)>> ELSE <<>>)
             \o SelectItems(Tail(items), keep)

\* A removal of the `copy` members done in place, on the object's own array.
filterCopyInPlace(properties, copyKeyLC, id) ==
    [id |-> properties.id,
     items |-> SelectItems(properties.items,
                   {p \in {properties.items[i] : i \in 1..Len(properties.items)} :
                       toLowerCase(p.nameValue.unquotedValue) # copyKeyLC})]

\* A filter that compares the names as written.
filterCopyCaseSensitive(properties, copyKeyLC, id) ==
    [id |-> id,
     items |-> SelectItems(properties.items,
                   {p \in {properties.items[i] : i \in 1..Len(properties.items)} :
                       p.nameValue.unquotedValue # copyKeyLC})]

\* valueObject.properties.filter(prop => ... !== copyKeyLC): a new array
filterCopy(properties, copyKeyLC, id) ==
    [id |-> id,
     items |-> SelectItems(properties.items,
                   {p \in {properties.items[i] : i \in 1..Len(properties.items)} :
                       toLowerCase(p.nameValue.unquotedValue) # copyKeyLC})]

\* A push that adds the item at the front (an unshift).
pushAtFront(array, item) == [array EXCEPT !.items = <<item>> \o @]

\* Array.prototype.push
push(array, item) == [array EXCEPT !.items = Append(@, item)]

\* A turn of the loop that does not test loopVarObject before it uses it.
loopVarStepNoGuard(loopVar, st) ==
    LET loopVarObject == asObjectValue(loopVar)
        nameProperty == getPropertyValue(loopVarObject, templateKeys_loopVarName)
        input == getPropertyValue(loopVarObject, templateKeys_loopVarInput)
        name == IF IsTypeError(nameProperty) THEN nameProperty
                ELSE asStringValue(nameProperty)
    IN IF IsTypeError(name) \/ IsTypeError(input)
       THEN [st EXCEPT !.threw = TRUE]
       ELSE IF truthy(name) /\ truthy(input)
            THEN LET array == ArrayValue(NewId(st.allocs + 1), input.span, <<input>>)
                     loopValueProperty == Property(input.span, name, array)
                 IN [st EXCEPT !.modifiedMembers = [@ EXCEPT !.items = Append(@, loopValueProperty)],
                               !.allocs = @ + 1]
            ELSE st

\* One turn of the loop over copyPropertyArray.elements; st holds
\* modifiedMembers, the allocation count and whether an error was raised.
loopVarStep(loopVar, st) ==
    LET loopVarObject == asObjectValue(loopVar)
    IN IF truthy(loopVarObject)
       THEN LET nameProperty == getPropertyValue(loopVarObject, templateKeys_loopVarName)
                input == getPropertyValue(loopVarObject, templateKeys_loopVarInput)
                name == IF IsTypeError(nameProperty) THEN nameProperty
                        ELSE asStringValue(nameProperty)
            IN IF IsTypeError(name) \/ IsTypeError(input)
               THEN [st EXCEPT !.threw = TRUE]
               ELSE IF truthy(name) /\ truthy(input)
                    THEN LET array == ArrayValue(NewId(st.allocs + 1), input.span, <<input>>)
                             loopValueProperty == Property(input.span, name, array)
                         IN [st EXCEPT !.modifiedMembers = push(@, loopValueProperty),
                                       !.allocs = @ + 1]
                    ELSE st
       ELSE st

RECURSIVE loopVars(_, _, _)
loopVars(elements, i, st) ==
    IF i > Len(elements) \/ st.threw
    THEN st
    ELSE loopVars(elements, i + 1, loopVarStep(elements[i], st))

\* A lookup that takes a `copy` member that is no array for an empty copy array.
copyPropertyArrayOrEmpty(valueObject) ==
    LET copy == getPropertyValue(valueObject, templateKeys_copy)
    IN IF copy.kind = "ArrayValue" THEN copy
       ELSE IF truthy(copy) THEN ArrayValue(copy.id, copy.span, <<>>)
       ELSE null

\* Json.asArrayValue(valueObject.getPropertyValue(templateKeys.copy))
copyPropertyArrayOf(valueObject) ==
    asArrayValue(getPropertyValue(valueObject, templateKeys_copy))

\* The body of `if (copyPropertyArray)`: the object built from valueObject
\* and its copy array when n objects have been allocated, and the wrapped
\* property afterwards.
expandCopy(property, valueObject, copyPropertyArray, n) ==
    LET copyKeyLC == toLowerCase(templateKeys_copy)
        filtered == filterCopy(valueObject.properties, copyKeyLC, NewId(n + 1))
        st == loopVars(copyPropertyArray.elements, 1,
                       [modifiedMembers |-> filtered, allocs |-> n + 1, threw |-> FALSE])
        modifiedObjectValue ==
            ObjectValue(NewId(st.allocs + 1), valueObject.span, st.modifiedMembers)
        \* a push on an array is seen through every reference to that array
        after == IF st.modifiedMembers.id = valueObject.properties.id
                 THEN [property EXCEPT !.value.properties = st.modifiedMembers]
                 ELSE property
    IN IF st.threw
       THEN [value |-> undefined, threw |-> TRUE, allocs |-> st.allocs, property |-> after]
       ELSE [value |-> modifiedObjectValue, threw |-> FALSE,
             allocs |-> st.allocs + 1, property |-> after]

\* The function `value` hands to getOrCacheValue, run on `property` when n
\* objects have been allocated: the value it returns, whether it raised an
\* error, the allocation count and the wrapped property afterwards.
calculateValue(property, n) ==
    IF ~truthy(property)
    THEN \* this._property.value raises a TypeError
         [value |-> undefined, threw |-> TRUE, allocs |-> n, property |-> property]
    ELSE LET value == property.value
             valueObject == asObjectValue(value)
             asIs == [value |-> value, threw |-> FALSE, allocs |-> n,
                      property |-> property]
         IN IF truthy(valueObject)
            THEN LET copyPropertyArray == copyPropertyArrayOf(valueObject)
                 IN IF truthy(copyPropertyArray)
                    THEN expandCopy(property, valueObject, copyPropertyArray, n)
                    ELSE asIs
            ELSE asIs

\* assert(value): raises an assertion error for a falsy value
assert(value) == [threw |-> ~truthy(value)]

\* A constructor that asserts nothing.
NewTopLevelVariableDefinitionNoAssert(property) ==
    [threw |-> FALSE, error |-> "", _property |-> property,
     _nameValue |-> NewCachedValue]

\* new TopLevelVariableDefinition(property): whether it raised an error and
\* which, and the fields of the object it was building.
NewTopLevelVariableDefinition(property) ==
    LET asserted == assert(property)
    IN [threw |-> asserted.threw,
        error |-> IF asserted.threw THEN "AssertionError" ELSE "",
        _property |-> property,
        _nameValue |-> NewCachedValue]

(***************************************************************************)
(* TopLevelCopyBlockVariableDefinition                                     *)
(***************************************************************************)
\* A constructor that repeats the input `count` times.
NewTopLevelCopyBlockVariableDefinitionCounted(copyVariableObject, nameValue, input, n) ==
    LET count == getPropertyValue(copyVariableObject, <<"c", "o", "u", "n", "t">>)
        times == IF count.kind = "NumberValue" THEN count.n ELSE 1
    IN [kind |-> "TopLevelCopyBlockVariableDefinition",
        definitionKind |-> "Variable",
        _copyVariableObject |-> copyVariableObject,
        nameValue |-> nameValue,
        value |-> IF truthy(input)
                  THEN ArrayValue(NewId(n + 1), input.span, [i \in 1..times |-> input])
                  ELSE null]

\* The constructor, run when n objects have been allocated.
NewTopLevelCopyBlockVariableDefinition(copyVariableObject, nameValue, input, n) ==
    [kind |-> "TopLevelCopyBlockVariableDefinition",
     definitionKind |-> "Variable",
     _copyVariableObject |-> copyVariableObject,
     nameValue |-> nameValue,
     value |-> IF truthy(input)
               THEN ArrayValue(NewId(n + 1), input.span, <<input>>)
               ELSE null]

createIfValid(copyVariableObject, n) ==
    LET asObject == asObjectValue(copyVariableObject)
        absent == [ret |-> undefined, threw |-> FALSE]
    IN IF truthy(asObject)
       THEN LET nameProperty == getPropertyValue(asObject, templateKeys_loopVarName)
                nameValue == IF IsTypeError(nameProperty) THEN nameProperty
                             ELSE asStringValue(nameProperty)
            IN IF IsTypeError(nameValue)
               THEN [ret |-> undefined, threw |-> TRUE]
               ELSE IF truthy(nameValue)
                    THEN LET value == getPropertyValue(asObject, templateKeys_loopVarInput)
                         IN IF IsTypeError(value)
                            THEN [ret |-> undefined, threw |-> TRUE]
                            ELSE [ret |-> NewTopLevelCopyBlockVariableDefinition(
                                              asObject, nameValue, value, n),
                                  threw |-> FALSE]
                    ELSE absent
       ELSE absent

(***************************************************************************)
(* The parsed JSON the definitions are built over.  A parsed node n has    *)
(* the id <<"parsed", n>> and the span n; the Property[] of a parsed       *)
(* object n has the id <<"array", n>>.                                     *)
(***************************************************************************)
MaxProps == 2      \* members of the wrapped object besides its copy array
MaxCopyLen == 2    \* elements of the copy array

ParsedId(n) == <<"parsed", n>>
PString(n, s) == StringValue(ParsedId(n), n, s)
PNumber(n, v) == NumberValue(ParsedId(n), n, v)
PNull(n) == NullValue(ParsedId(n), n)
PArray(n, elements) == ArrayValue(ParsedId(n), n, elements)
PObject(n, items) == ObjectValue(ParsedId(n), n, [id |-> <<"array", n>>, items |-> items])
PProperty(n, key, value) == Property(n, PString(n, key), value)

s_v == <<"v">>
s_X == <<"X">>
s_Y == <<"Y">>
s_b == <<"b">>
s_other == <<"o", "t", "h", "e", "r">>
s_disks == <<"d", "i", "s", "k", "s">>
s_count == <<"c", "o", "u", "n", "t">>
s_copy == <<"c", "o", "p", "y">>
s_Copy == <<"C", "o", "p", "y">>
s_COPY == <<"C", "O", "P", "Y">>
s_name == <<"n", "a", "m", "e">>
s_NAME == <<"N", "A", "M", "E">>
s_input == <<"i", "n", "p", "u", "t">>
s_Input == <<"I", "n", "p", "u", "t">>

\* Elements of a copy array.
LoopVarNotObject == PNumber(10, 5)
LoopVarNoName ==                        \* {"count": 5, "input": "X"}
    PObject(20, <<PProperty(21, s_count, PNumber(22, 5)),
                  PProperty(23, s_input, PString(24, s_X))>>)
LoopVarNameNotString ==                 \* {"name": 5, "input": "X"}
    PObject(30, <<PProperty(31, s_name, PNumber(32, 5)),
                  PProperty(33, s_input, PString(34, s_X))>>)
LoopVarNoInput ==                       \* {"name": "disks"}
    PObject(40, <<PProperty(41, s_name, PString(42, s_disks))>>)
LoopVarDisks ==                         \* {"name": "disks", "count": 5, "input": "X"}
    PObject(50, <<PProperty(51, s_name, PString(52, s_disks)),
                  PProperty(53, s_count, PNumber(54, 5)),
                  PProperty(55, s_input, PString(56, s_X))>>)
LoopVarNamedCopy ==                     \* {"name": "Copy", "input": "Y"}
    PObject(60, <<PProperty(61, s_name, PString(62, s_Copy)),
                  PProperty(63, s_input, PString(64, s_Y))>>)
LoopVarUpperKeys ==                     \* {"NAME": "b", "Input": {"copy": [5]}}
    PObject(70, <<PProperty(71, s_NAME, PString(72, s_b)),
                  PProperty(73, s_Input,
                      PObject(74, <<PProperty(75, s_copy,
                                        PArray(76, <<PNumber(77, 5)>>))>>))>>)
LoopVarEmptyNameNullInput ==            \* {"name": "", "input": null}
    PObject(80, <<PProperty(81, s_name, PString(82, <<>>)),
                  PProperty(83, s_input, PNull(84))>>)

\* The elements a copy array is made of.
ElemList ==
    <<LoopVarNotObject, LoopVarNoName, LoopVarNameNotString, LoopVarNoInput,
      LoopVarDisks, LoopVarNamedCopy, LoopVarUpperKeys, LoopVarEmptyNameNullInput>>

\* Members of the wrapped object that are no copy array.
PropOther == PProperty(90, s_other, PNumber(91, 1))         \* "other": 1
PropDisks == PProperty(92, s_disks, PString(93, s_Y))       \* "disks": "Y"
PropCopyNotArray == PProperty(94, s_COPY, PNumber(95, 1))   \* "COPY": 1
PlainPropList == <<PropOther, PropDisks, PropCopyNotArray>>

\* The sequences of at most m distinct numbers of 1..n.
IndexSeqs(n, m) ==
    {q \in UNION {[1..k -> 1..n] : k \in 0..m} :
        \A i, j \in 1..Len(q) : i # j => q[i] # q[j]}

Select(list, indices) == [i \in 1..Len(indices) |-> list[indices[i]]]
InsertAt(q, k, x) == SubSeq(q, 1, k) \o <<x>> \o SubSeq(q, k + 1, Len(q))

CopyKeys == {s_copy, s_Copy}
CopyElementChoices == IndexSeqs(Len(ElemList), MaxCopyLen)
PlainChoices == IndexSeqs(Len(PlainPropList), MaxProps)

\* "<key>": [the elements chosen]
CopyProperty(key, choice) == PProperty(3, key, PArray(4, Select(ElemList, choice)))

\* "v": {the members}
WrappedObject(items) == PProperty(1, s_v, PObject(2, items))

\* {"copy": [{"name": "disks", "count": 5, "input": "X"}], "other": 1}
ExampleProperty == WrappedObject(<<CopyProperty(s_copy, <<5>>), PropOther>>)
\* {"other": 1}
NoCopyProperty == WrappedObject(<<PropOther>>)

(***************************************************************************)
(* The state after construction.                                           *)
(***************************************************************************)
none == [kind |-> "none"]

\* No caller is inside getOrCacheValue.
NoCallers == callers = <<>> /\ stores = <<>> /\ overlapped = FALSE

\* startArmLanguageServer has not been called.
NoServer == files = <<>> /\ setting = undefined /\ started = none

InitCell == cell = NewCachedValue /\ log = <<>> /\ NoCallers /\ NoServer

\* new TopLevelVariableDefinition(property), for a property there is
InitDefinition(property) ==
    /\ LET definition == NewTopLevelVariableDefinition(property)
       IN /\ constructed = [arg |-> property, threw |-> definition.threw,
                            error |-> definition.error]
          /\ _property = definition._property
          /\ _nameValue = definition._nameValue
    /\ allocs = 0
    /\ reads = <<>>

InitCache ==
    /\ InitCell
    /\ \E property \in {ExampleProperty, NoCopyProperty} : InitDefinition(property)
    /\ created = none
    /\ hover = none

\* Definitions over a string, over no value, over objects of plain members,
\* and over objects that hold a copy array among plain members.
InitVariable ==
    /\ InitCell
    /\ \/ InitDefinition(PProperty(1, s_v, PString(2, s_X)))
       \/ InitDefinition(PProperty(1, s_v, null))
       \/ \E plain \in PlainChoices :
              InitDefinition(WrappedObject(Select(PlainPropList, plain)))
       \/ \E plain \in PlainChoices, key \in CopyKeys, choice \in CopyElementChoices :
              \E k \in 0..Len(plain) :
                  InitDefinition(WrappedObject(
                      InsertAt(Select(PlainPropList, plain), k, CopyProperty(key, choice))))
    /\ created = none
    /\ hover = none

\* Definitions over objects that hold a copy array and at most one member more.
InitCopyBlock ==
    /\ InitCell
    /\ \E key \in CopyKeys, choice \in CopyElementChoices :
           \/ InitDefinition(WrappedObject(<<CopyProperty(key, choice)>>))
           \/ \E i \in 1..Len(PlainPropList), k \in 0..1 :
                  InitDefinition(WrappedObject(
                      InsertAt(<<PlainPropList[i]>>, k, CopyProperty(key, choice))))
    /\ created = none
    /\ hover = none

(***************************************************************************)
(* Operations.                                                             *)
(***************************************************************************)
\* cell.getOrCacheValue(f)
GetOrCacheValue(f) ==
    /\ Len(log) < MaxCalls
    /\ LET r == getOrCacheValue(cell, f)
       IN /\ cell' = r.cell
          /\ log' = Append(log, [calculateValue |-> f, invoked |-> r.invoked,
                                 threw |-> r.threw, ret |-> r.ret])
    /\ UNCHANGED <<constructed, _property, _nameValue, allocs, reads, created, hover, raceVars, serverVars>>

\* A read of TopLevelVariableDefinition.value
ReadValue ==
    /\ constructed # none /\ ~constructed.threw
    /\ Len(reads) < MaxReads
    /\ LET calc == calculateValue(_property, allocs)
           r == getOrCacheValue(_nameValue, calc)
       IN /\ _nameValue' = r.cell
          /\ reads' = Append(reads, [invoked |-> r.invoked, threw |-> r.threw,
                                     ret |-> r.ret])
          /\ allocs' = IF r.invoked THEN calc.allocs ELSE allocs
          /\ _property' = IF r.invoked THEN calc.property ELSE _property
    /\ UNCHANGED <<cell, log, constructed, created, hover, raceVars, serverVars>>

\* The elements of the wrapped value's copy array, if it has one.
CopyElements(property) ==
    IF property.value.kind = "ObjectValue"
           /\ truthy(copyPropertyArrayOf(property.value))
    THEN copyPropertyArrayOf(property.value).elements
    ELSE <<>>

\* TopLevelCopyBlockVariableDefinition.createIfValid(v)
CreateIfValid(v) ==
    /\ LET r == createIfValid(v, allocs)
       IN /\ created' = [arg |-> v, ret |-> r.ret, threw |-> r.threw]
          /\ allocs' = IF r.ret.kind = "TopLevelCopyBlockVariableDefinition"
                           /\ r.ret.value.kind = "ArrayValue"
                       THEN allocs + 1 ELSE allocs
    /\ UNCHANGED <<cell, log, constructed, _property, _nameValue, reads, hover, raceVars, serverVars>>

\* createIfValid on an element of the wrapped value's copy array, once
CreateIfValidElement ==
    /\ created = none
    /\ \E i \in 1..Len(CopyElements(_property)) :
           CreateIfValid(CopyElements(_property)[i])

NextCache == (\E f \in ComputeFns : GetOrCacheValue(f)) \/ ReadValue
SpecCache == InitCache /\ [][NextCache]_vars

NextVariable == ReadValue
SpecVariable == InitVariable /\ [][NextVariable]_vars

NextCopyBlock == ReadValue \/ CreateIfValidElement
SpecCopyBlock == InitCopyBlock /\ [][NextCopyBlock]_vars

\* No definition yet.
InitConstruct ==
    /\ InitCell
    /\ constructed = none
    /\ _property = none
    /\ _nameValue = none
    /\ allocs = 0
    /\ reads = <<>>
    /\ created = none
    /\ hover = none

\* new TopLevelVariableDefinition(property); the caller holds the object
\* only if the constructor returns.
Construct(property) ==
    /\ constructed = none
    /\ LET definition == NewTopLevelVariableDefinition(property)
       IN /\ constructed' = [arg |-> property, threw |-> definition.threw,
                             error |-> definition.error]
          /\ IF definition.threw
             THEN UNCHANGED <<_property, _nameValue>>
             ELSE /\ _property' = definition._property
                  /\ _nameValue' = definition._nameValue
    /\ UNCHANGED <<cell, log, allocs, reads, created, hover, raceVars, serverVars>>

\* The caller passes no property, or one over an object that holds a copy
\* array.
NextConstruct ==
    \/ \E property \in {null, undefined} : Construct(property)
    \/ \E key \in CopyKeys, choice \in CopyElementChoices :
           Construct(WrappedObject(<<CopyProperty(key, choice)>>))
    \/ ReadValue
SpecConstruct == InitConstruct /\ [][NextConstruct]_vars

(***************************************************************************)
(* getOrCacheValue statement by statement, for callers that a host with    *)
(* threads would let run side by side on one cell.  A caller's pc is the   *)
(* line it is about to run: 218 the test of the flag, 219 the call of      *)
(* calculateValue, "219=" the assignment of its result, 220 the setting of *)
(* the flag, 223 the return.                                               *)
(***************************************************************************)
\* line 220 left out
setIsCachedSkipped(this) == this

\* line 218: !this._isCached
isNotCached(this) == ~this._isCached
\* line 219: this._value = <result>
assignValue(this, result) == [this EXCEPT !._value = result]
\* line 220: this._isCached = true
setIsCached(this) == [this EXCEPT !._isCached = TRUE]

Callers == 1..MaxCallers
Idle == [pc |-> "idle", calculateValue |-> none, saw |-> "", invoked |-> FALSE,
         result |-> undefined, ret |-> undefined]

\* The callers between the test of the flag and the setting of it.
InWindow == {c \in Callers : callers[c].pc \in {"219", "219=", "220"}}

InitRace ==
    /\ cell = NewCachedValue
    /\ log = <<>>
    /\ callers = [c \in Callers |-> Idle]
    /\ stores = <<>>
    /\ overlapped = FALSE
    /\ NoServer
    /\ InitDefinition(NoCopyProperty)
    /\ created = none
    /\ hover = none

RaceFrame == UNCHANGED <<log, constructed, _property, _nameValue, allocs, reads, created,
                         hover, serverVars>>

\* Caller c calls cell.getOrCacheValue(f).
Call(c, f) ==
    /\ callers[c].pc = "idle"
    /\ callers' = [callers EXCEPT ![c].pc = "218", ![c].calculateValue = f]
    /\ UNCHANGED <<cell, stores, overlapped>>
    /\ RaceFrame

\* line 218
TestFlag(c) ==
    /\ callers[c].pc = "218"
    /\ IF isNotCached(cell)
       THEN /\ callers' = [callers EXCEPT ![c].pc = "219", ![c].saw = "not cached"]
            /\ overlapped' = (overlapped \/ InWindow # {})
       ELSE /\ callers' = [callers EXCEPT ![c].pc = "223", ![c].saw = "cached"]
            /\ UNCHANGED overlapped
    /\ UNCHANGED <<cell, stores>>
    /\ RaceFrame

\* line 219, the call: calculateValue() returns or throws
Calculate(c) ==
    /\ callers[c].pc = "219"
    /\ callers' = [callers EXCEPT
                      ![c].invoked = TRUE,
                      ![c].result = callers[c].calculateValue.value,
                      ![c].pc = IF callers[c].calculateValue.threw THEN "threw"
                                ELSE "219="]
    /\ UNCHANGED <<cell, stores, overlapped>>
    /\ RaceFrame

\* line 219, the assignment
AssignValue(c) ==
    /\ callers[c].pc = "219="
    /\ cell' = assignValue(cell, callers[c].result)
    /\ stores' = Append(stores, c)
    /\ callers' = [callers EXCEPT ![c].pc = "220"]
    /\ UNCHANGED overlapped
    /\ RaceFrame

\* line 220
SetIsCached(c) ==
    /\ callers[c].pc = "220"
    /\ cell' = setIsCached(cell)
    /\ callers' = [callers EXCEPT ![c].pc = "223"]
    /\ UNCHANGED <<stores, overlapped>>
    /\ RaceFrame

\* line 223
Return(c) ==
    /\ callers[c].pc = "223"
    /\ callers' = [callers EXCEPT ![c].pc = "returned", ![c].ret = cell._value]
    /\ UNCHANGED <<cell, stores, overlapped>>
    /\ RaceFrame

\* Caller c computes the number c, or its computation throws.
NextRace ==
    \E c \in Callers :
        \/ Call(c, [threw |-> FALSE, value |-> JsNumber(c)])
        \/ Call(c, [threw |-> TRUE, value |-> undefined])
        \/ TestFlag(c)
        \/ Calculate(c)
        \/ AssignValue(c)
        \/ SetIsCached(c)
        \/ Return(c)
SpecRace == InitRace /\ [][NextRace]_vars

(***************************************************************************)
(* Properties of CachedValue (SpecCache).                                  *)
(***************************************************************************)
NoneFails(l) == \A i \in 1..Len(l) : ~l[i].calculateValue.threw

\* The calls of l in which calculateValue was invoked and returned.
Completed(l) == {i \in 1..Len(l) : l[i].invoked /\ ~l[i].threw}

\* The first call of l in which calculateValue was invoked and returned.
FirstCompleted(l) == CHOOSE j \in Completed(l) : \A k \in Completed(l) : j <= k

\* C1: in a sequence of getOrCacheValue calls none of whose compute functions
\* fails, the compute function is invoked in the first call and in no other,
\* and every call returns what that first invocation produced, whatever the
\* later compute functions would produce; and every read of
\* TopLevelVariableDefinition.value returns the object the first read
\* returned, the computation having run in the first read only.
C1_ComputedOnceThenReturned ==
    /\ NoneFails(log) =>
           \A i \in 1..Len(log) :
               /\ log[i].invoked <=> i = 1
               /\ ~log[i].threw
               /\ log[i].ret = log[1].calculateValue.value
    /\ \A i \in 1..Len(reads) :
           /\ reads[i].invoked <=> i = 1
           /\ ~reads[i].threw
           /\ reads[i].ret = reads[1].ret      \* the same node: the ids are equal

\* C1 witness: three calls with three different compute functions, the first
\* returning undefined, and two reads of a value that has a copy array.
C1_Witness ==
    /\ Len(log) = 3
    /\ NoneFails(log)
    /\ log[1].calculateValue.value = undefined
    /\ log[2].calculateValue.value = JsNumber(1)
    /\ log[3].calculateValue.value = null
    /\ _property = ExampleProperty
    /\ Len(reads) = 2
    /\ reads[2].ret.id = NewId(3)

\* C2: a call whose compute function fails fails itself and leaves the cell
\* as it was, uncomputed and with no value stored, so that the compute
\* function is invoked in every call until one returns; and a call that
\* returns, returns the result of the first compute invocation that returned.
C2_FailureNotCached ==
    /\ \A i \in 1..Len(log) :
           LET before == Completed(SubSeq(log, 1, i - 1))
           IN /\ before = {} => log[i].invoked
              /\ before = {} => (log[i].threw <=> log[i].calculateValue.threw)
              /\ before # {} => ~log[i].invoked /\ ~log[i].threw
              /\ ~log[i].threw =>
                     /\ Completed(SubSeq(log, 1, i)) # {}
                     /\ log[i].ret = log[FirstCompleted(log)].calculateValue.value
    /\ Completed(log) = {} => cell = NewCachedValue

\* C2 witness: two failing calls, then a call that computes 2, then a call
\* with another compute function, which returns 2 as well.
C2_Witness ==
    /\ Len(log) = 4
    /\ log[1].threw /\ log[2].threw
    /\ log[3].invoked /\ log[3].ret = JsNumber(2)
    /\ log[4].calculateValue.value = JsNumber(1)
    /\ ~log[4].invoked /\ log[4].ret = JsNumber(2)


(***************************************************************************)
(* Properties of the variable definitions (SpecVariable, SpecCopyBlock).   *)
(*                                                                         *)
(* What the claims speak of is defined here on the parsed JSON, apart from *)
(* the operators that model the code.                                      *)
(***************************************************************************)
NameLC(p) == toLowerCase(p.nameValue.unquotedValue)
IsCopyName(p) == NameLC(p) = s_copy

\* v is an object with a `copy` property whose value is an array
HasCopyArray(v) ==
    v.kind = "ObjectValue" /\ getPropertyValue(v, s_copy).kind = "ArrayValue"
CopyArrayElements(v) == getPropertyValue(v, s_copy).elements

LoopVarNameOf(e) == getPropertyValue(e, s_name)
LoopVarInputOf(e) == getPropertyValue(e, s_input)
\* e is an object with a string `name` and a present `input`
IsValidLoopVar(e) ==
    /\ e.kind = "ObjectValue"
    /\ LoopVarNameOf(e).kind = "StringValue"
    /\ LoopVarInputOf(e).kind # "null"

\* The k-th smallest number of S
Nth(S, k) == CHOOSE x \in S : Cardinality({y \in S : y < x}) = k - 1
KeptIndices(items) == {i \in 1..Len(items) : ~IsCopyName(items[i])}
ValidIndices(elements) == {j \in 1..Len(elements) : IsValidLoopVar(elements[j])}
Names(items) == [i \in 1..Len(items) |-> items[i].nameValue.unquotedValue]

\* C3 (as claimed): createIfValid returns a definition if and only if its
\* argument is an object with a string `name` and a present `input`.
C3_DefinitionIffNameAndInput ==
    created # none =>
        (created.ret.kind = "TopLevelCopyBlockVariableDefinition"
            <=> IsValidLoopVar(created.arg))

\* C4: when the wrapped value is an object with an array-valued `copy`
\* property, every read of `value` returns a new object whose members are
\* the original members not named `copy` (in any casing), in their order,
\* followed by one member per valid element of the copy array, in the
\* array's order, named by the element's `name` and valued as an array of
\* that element's `input` alone; the spec's example yields
\* {"other": 1, "disks": ["X"]}.
C4_CopyExpansion ==
    /\ \A r \in 1..Len(reads) :
           HasCopyArray(_property.value) =>
               LET orig == _property.value.properties.items
                   elements == CopyArrayElements(_property.value)
                   kept == KeptIndices(orig)
                   valid == ValidIndices(elements)
                   nk == Cardinality(kept)
                   ret == reads[r].ret
               IN /\ ret.kind = "ObjectValue"
                  /\ ret.id # _property.value.id
                  /\ ret.span = _property.value.span
                  /\ Len(ret.properties.items) = nk + Cardinality(valid)
                  /\ \A k \in 1..nk : ret.properties.items[k] = orig[Nth(kept, k)]
                  /\ \A k \in 1..Cardinality(valid) :
                         LET e == elements[Nth(valid, k)]
                             m == ret.properties.items[nk + k]
                         IN /\ m.nameValue = LoopVarNameOf(e)
                            /\ m.value.kind = "ArrayValue"
                            /\ m.value.elements = <<LoopVarInputOf(e)>>
    /\ (_property = ExampleProperty /\ reads # <<>>) =>
           LET items == reads[1].ret.properties.items
           IN /\ Names(items) = <<s_other, s_disks>>
              /\ items[1].value = PNumber(91, 1)
              /\ items[2].value.elements = <<PString(56, s_X)>>

\* C4 witness: {"disks": "Y", "Copy": [{"NAME": "b", "Input": {...}},
\* {"name": "disks", ...}], "other": 1} has been read, giving the members
\* disks, other, b, disks.
C4_Witness ==
    /\ _property = WrappedObject(<<PropDisks, CopyProperty(s_Copy, <<7, 5>>), PropOther>>)
    /\ reads # <<>>
    /\ Names(reads[1].ret.properties.items) = <<s_disks, s_other, s_b, s_disks>>

\* C5 (as claimed): when the wrapped value holds a copy array, the value
\* read has no member named `copy` in any casing, whatever the elements of
\* the copy array are.
C5_NoMemberNamedCopy ==
    \A r \in 1..Len(reads) :
        HasCopyArray(_property.value) =>
            \A k \in 1..Len(reads[r].ret.properties.items) :
                ~IsCopyName(reads[r].ret.properties.items[k])

\* C5 (amended): when the wrapped value holds a copy array, the value read
\* retains no original member named `copy` in any casing: its members named
\* `copy` are synthesized ones, one for each valid element of the copy
\* array whose own `name` is `copy` in some casing.
C5_NoOriginalMemberNamedCopy ==
    \A r \in 1..Len(reads) :
        HasCopyArray(_property.value) =>
            LET orig == _property.value.properties.items
                elements == CopyArrayElements(_property.value)
                items == reads[r].ret.properties.items
                namedCopy == {k \in 1..Len(items) : IsCopyName(items[k])}
                validNamedCopy ==
                    {j \in ValidIndices(elements) :
                        toLowerCase(LoopVarNameOf(elements[j]).unquotedValue) = s_copy}
            IN /\ \A k \in namedCopy :
                      /\ \A i \in 1..Len(orig) : items[k] # orig[i]
                      /\ \E j \in validNamedCopy :
                             /\ items[k].nameValue = LoopVarNameOf(elements[j])
                             /\ items[k].value.elements = <<LoopVarInputOf(elements[j])>>
               /\ Cardinality(namedCopy) = Cardinality(validNamedCopy)

\* C5 witness: {"COPY": 1, "Copy": [{"name": "Copy", "input": "Y"}]} has been
\* read: the value's one member is the synthesized "Copy": ["Y"].
C5_Witness ==
    /\ _property = WrappedObject(<<PropCopyNotArray, CopyProperty(s_Copy, <<6>>)>>)
    /\ reads # <<>>
    /\ Names(reads[1].ret.properties.items) = <<s_Copy>>
    /\ reads[1].ret.properties.items[1].value.elements = <<PString(64, s_Y)>>

\* C6: while the wrapped value has no array-valued `copy` property (it is no
\* object, or an object without `copy`, or one whose `copy` is no array), a
\* read of `value` returns the wrapped value itself, allocates nothing and
\* leaves the wrapped property, all its members included, as it was.
C6_NoCopyArrayReturnedAsIs ==
    [][~HasCopyArray(_property.value) =>
           /\ _property' = _property
           /\ allocs' = allocs
           /\ \A r \in 1..Len(reads') :
                  /\ ~reads'[r].threw
                  /\ reads'[r].ret = _property.value]_vars

\* C6 witness: {"other": 1, "COPY": 1} has been read twice and the second
\* read returned the parsed object.
C6_Witness ==
    /\ _property = WrappedObject(<<PropOther, PropCopyNotArray>>)
    /\ Len(reads) = 2
    /\ reads[2].ret.id = ParsedId(2)
    /\ Names(reads[2].ret.properties.items) = <<s_other, s_COPY>>

\* Member m of a value read was made from element e of the copy array.
MadeFrom(m, e) ==
    /\ e.kind = "ObjectValue"
    /\ \/ m.nameValue = LoopVarNameOf(e)
       \/ m.value.kind = "ArrayValue" /\ m.value.elements = <<LoopVarInputOf(e)>>

C8_WrappedTreeNotMutated ==
    [][/\ _property' = _property
       /\ HasCopyArray(_property.value) =>
              \A r \in 1..Len(reads') :
                  /\ reads'[r].ret.id # _property.value.id
                  /\ reads'[r].ret.properties.id # _property.value.properties.id]_vars

\* C8 witness: {"copy": [{"name": "disks", ...}], "other": 1} has been read
\* twice, giving a new object, and still holds its two members.
C8_Witness ==
    /\ _property = ExampleProperty
    /\ Len(reads) = 2
    /\ reads[2].ret.id = NewId(3)
    /\ Names(_property.value.properties.items) = <<s_copy, s_other>>
    /\ Len(CopyArrayElements(_property.value)) = 1

(***************************************************************************)
(* Hover.ts: UserFunctionInfo.getUsage and UserNamespaceInfo.getHoverText  *)
(***************************************************************************)
MaxParams == 2     \* parameters of a user function
MaxMembers == 2    \* members of a user namespace

\* Array.prototype.join
RECURSIVE join(_, _)
join(strings, separator) ==
    IF strings = <<>> THEN <<>>
    ELSE IF Len(strings) = 1 THEN strings[1]
    ELSE strings[1] \o separator \o join(Tail(strings), separator)

\* A getParamUsage that shows the type as it is written.
getParamUsageTypeAsWritten(pd) ==
    LET paramName == pd.name.unquotedValue
        paramTypeValue == asStringValue(pd.type)
        paramType == IF truthy(paramTypeValue)
                     THEN JsString(paramTypeValue.unquotedValue)
                     ELSE paramTypeValue
    IN IF truthy(paramType)
       THEN paramName \o <<" ", "[">> \o paramType.value \o <<"]">>
       ELSE paramName

getParamUsage(pd) ==
    LET paramName == pd.name.unquotedValue
        paramTypeValue == asStringValue(pd.type)
        \* paramTypeValue && paramTypeValue.unquotedValue
        paramType == IF truthy(paramTypeValue)
                     THEN JsString(paramTypeValue.unquotedValue)
                     ELSE paramTypeValue
        \* paramType && paramType.toLowerCase()
        paramTypeLC == IF truthy(paramType)
                       THEN JsString(toLowerCase(paramType.value))
                       ELSE paramType
    IN IF truthy(paramTypeLC)
       THEN paramName \o <<" ", "[">> \o paramTypeLC.value \o <<"]">>
       ELSE paramName

\* UserFunctionInfo.getUsage(namespace, func)
getUsage(namespace, func) ==
    LET ns == IF truthy(namespace) THEN namespace.namespaceName.unquotedValue ELSE <<>>
        name == func.name.unquotedValue
        params == func.parameterDefinitions
    IN (IF ns # <<>> THEN ns \o <<".">> ELSE ns)
           \o name \o <<"(">>
           \o join([i \in 1..Len(params) |-> getParamUsage(params[i])], <<",", " ">>)
           \o <<")">>

s_UserDefinedNamespace ==
    <<" ", "U", "s", "e", "r", "-", "d", "e", "f", "i", "n", "e", "d", " ",
      "n", "a", "m", "e", "s", "p", "a", "c", "e">>
s_Members == <<"M", "e", "m", "b", "e", "r", "s", ":">>
s_NoMembers == <<"N", "o", " ", "m", "e", "m", "b", "e", "r", "s">>

\* A getHoverText that lists the members with the namespace in front.
getNamespaceHoverTextWithPrefix(_namespace) ==
    LET ns == _namespace.namespaceName.unquotedValue
        methodsUsage == [i \in 1..Len(_namespace.members) |->
                            getUsage(_namespace, _namespace.members[i])]
        summary == <<"*", "*">> \o ns \o <<"*", "*">> \o s_UserDefinedNamespace
    IN IF Len(methodsUsage) > 0
       THEN summary \o <<"\n">> \o s_Members \o <<"\n">>
                \o join([i \in 1..Len(methodsUsage) |-> <<"*", " ">> \o methodsUsage[i]],
                        <<"\n">>)
       ELSE summary \o <<"\n">> \o s_NoMembers

\* UserNamespaceInfo.getHoverText()
getNamespaceHoverText(_namespace) ==
    LET ns == _namespace.namespaceName.unquotedValue
        methodsUsage == [i \in 1..Len(_namespace.members) |->
                            getUsage(undefined, _namespace.members[i])]
        summary == <<"*", "*">> \o ns \o <<"*", "*">> \o s_UserDefinedNamespace
    IN IF Len(methodsUsage) > 0
       THEN summary \o <<"\n">> \o s_Members \o <<"\n">>
                \o join([i \in 1..Len(methodsUsage) |-> <<"*", " ">> \o methodsUsage[i]],
                        <<"\n">>)
       ELSE summary \o <<"\n">> \o s_NoMembers

\* The definitions the hover requests are made over.
UserFunctionParameterDefinition(name, type) == [name |-> name, type |-> type]
UserFunctionDefinition(name, parameterDefinitions) ==
    [name |-> name, parameterDefinitions |-> parameterDefinitions]
UserFunctionNamespaceDefinition(namespaceName, members) ==
    [kind |-> "UserFunctionNamespaceDefinition",
     namespaceName |-> namespaceName, members |-> members]

s_string == <<"s", "t", "r", "i", "n", "g">>
s_Int == <<"I", "n", "t">>
s_ns == <<"n", "s">>

ParamA == UserFunctionParameterDefinition(PString(101, <<"a">>), null)
ParamB == UserFunctionParameterDefinition(PString(102, <<"b">>), PString(103, s_string))
ParamC == UserFunctionParameterDefinition(PString(104, <<"c">>), PString(105, s_Int))
ParamD == UserFunctionParameterDefinition(PString(106, <<"d">>), PString(107, <<>>))
ParamE == UserFunctionParameterDefinition(PString(108, <<"e">>), PNumber(109, 5))
ParamList == <<ParamA, ParamB, ParamC, ParamD, ParamE>>
ParamChoices == IndexSeqs(Len(ParamList), MaxParams)

\* function f with the parameters chosen
FunctionF(choice) == UserFunctionDefinition(PString(110, <<"f">>), Select(ParamList, choice))

\* The functions a namespace is made of: g(), h(a, b: string), k(c: Int, e: 5)
MemberList ==
    <<UserFunctionDefinition(PString(111, <<"g">>), <<>>),
      UserFunctionDefinition(PString(112, <<"h">>), <<ParamA, ParamB>>),
      UserFunctionDefinition(PString(113, <<"k">>), <<ParamC, ParamE>>)>>
MemberChoices == IndexSeqs(Len(MemberList), MaxMembers)

NamespaceNames == {s_ns, <<"N", "s">>, <<>>}
Namespace(name, choice) ==
    UserFunctionNamespaceDefinition(PString(120, name), Select(MemberList, choice))

\* A getHoverText that ends the first line whatever the description.
getFunctionHoverTextAlwaysNewline(_usage, _description) ==
    <<"*", "*">> \o _usage \o <<"*", "*">> \o <<"\n">>
        \o (IF truthy(_description) THEN _description.value ELSE <<>>)

\* FunctionInfo.getHoverText()
getFunctionHoverText(_usage, _description) ==
    <<"*", "*">> \o _usage \o <<"*", "*">>
        \o (IF truthy(_description) THEN <<"\n">> \o _description.value ELSE <<>>)

s_parameter == <<" ", "(", "p", "a", "r", "a", "m", "e", "t", "e", "r", ")">>

\* ParameterReferenceInfo.getHoverText()
getParameterHoverText(_name, _description) ==
    <<"*", "*">> \o _name \o <<"*", "*">> \o s_parameter
        \o (IF truthy(_description) THEN <<"\n">> \o _description.value ELSE <<>>)

\* Usages of built-in functions, parameter names, and descriptions: absent,
\* empty, blank, one line, two lines, and ending in a line end.
Usages ==
    {<<"a", "d", "d", "(", "a", ",", " ", "b", ")">>, <<"f", "(", ")">>, s_ns, <<"p">>, <<>>}
Descriptions ==
    {null, undefined, JsString(<<>>), JsString(<<" ">>), JsString(<<"A", "d", "d", "s", ".">>),
     JsString(<<"a", "\n", "b">>), JsString(<<"a", "\n">>), JsString(<<"\n">>)}

InitHover ==
    /\ InitCell
    /\ InitDefinition(NoCopyProperty)
    /\ created = none
    /\ hover = none

\* UserFunctionInfo.getUsage(namespace, func), the one request of a behaviour
GetUsage(namespace, func) ==
    /\ hover = none
    /\ hover' = [op |-> "getUsage", namespace |-> namespace, func |-> func,
                 text |-> getUsage(namespace, func)]
    /\ UNCHANGED <<cell, log, constructed, _property, _nameValue, allocs, reads, created, raceVars, serverVars>>

\* new UserNamespaceInfo(namespace, span).getHoverText(), the one request of
\* a behaviour
GetNamespaceHoverText(namespace) ==
    /\ hover = none
    /\ hover' = [op |-> "getHoverText", namespace |-> namespace,
                 text |-> getNamespaceHoverText(namespace)]
    /\ UNCHANGED <<cell, log, constructed, _property, _nameValue, allocs, reads, created, raceVars, serverVars>>

\* new FunctionInfo(name, usage, description, span).getHoverText(), the one
\* request of a behaviour
GetFunctionHoverText(usage, description) ==
    /\ hover = none
    /\ hover' = [op |-> "FunctionInfo.getHoverText", usage |-> usage,
                 description |-> description,
                 text |-> getFunctionHoverText(usage, description)]
    /\ UNCHANGED <<cell, log, constructed, _property, _nameValue, allocs, reads, created, raceVars, serverVars>>

\* new ParameterReferenceInfo(name, description, span).getHoverText(), the one
\* request of a behaviour
GetParameterHoverText(name, description) ==
    /\ hover = none
    /\ hover' = [op |-> "ParameterReferenceInfo.getHoverText", name |-> name,
                 description |-> description,
                 text |-> getParameterHoverText(name, description)]
    /\ UNCHANGED <<cell, log, constructed, _property, _nameValue, allocs, reads, created, raceVars, serverVars>>

NextHover ==
    \/ \E usage \in Usages, description \in Descriptions :
           \/ GetFunctionHoverText(usage, description)
           \/ GetParameterHoverText(usage, description)
    \/ \E choice \in ParamChoices :
           \/ GetUsage(undefined, FunctionF(choice))
           \/ \E name \in NamespaceNames :
                  GetUsage(Namespace(name, <<>>), FunctionF(choice))
    \/ \E name \in NamespaceNames, members \in MemberChoices :
           GetNamespaceHoverText(Namespace(name, members))
SpecHover == InitHover /\ [][NextHover]_vars

(***************************************************************************)
(* Properties of the hover texts (SpecHover).                              *)
(***************************************************************************)
\* What the claims say a parameter, a parameter list and a usage look like.
ShownParameter(p) ==
    IF p.type.kind = "StringValue" /\ p.type.unquotedValue # <<>>
    THEN p.name.unquotedValue \o <<" ", "[">> \o toLowerCase(p.type.unquotedValue) \o <<"]">>
    ELSE p.name.unquotedValue

RECURSIVE ShownParameters(_)
ShownParameters(ps) ==
    IF ps = <<>> THEN <<>>
    ELSE ShownParameters(SubSeq(ps, 1, Len(ps) - 1))
             \o (IF Len(ps) > 1 THEN <<",", " ">> ELSE <<>>)
             \o ShownParameter(ps[Len(ps)])

ShownUsage(prefix, func) ==
    prefix \o func.name.unquotedValue \o <<"(">>
        \o ShownParameters(func.parameterDefinitions) \o <<")">>

RECURSIVE ShownBullets(_)
ShownBullets(members) ==
    IF members = <<>> THEN <<>>
    ELSE <<"\n", "*", " ">> \o ShownUsage(<<>>, Head(members)) \o ShownBullets(Tail(members))

\* C9: getUsage returns the function's name, preceded by the namespace's
\* name and a dot exactly when a namespace with a non-empty name is given,
\* and followed by the parenthesised parameters in declaration order,
\* separated by ", ", each shown as its name, followed by its lower-cased
\* type in brackets exactly when its type is a non-empty string; f(a,
\* b: string) gives "ns.f(a, b [string])" in ns and "f(a, b [string])" alone.
C9_UsageFormat ==
    (hover # none /\ hover.op = "getUsage") =>
        LET namespace == hover.namespace
            prefixed == /\ namespace.kind = "UserFunctionNamespaceDefinition"
                        /\ namespace.namespaceName.unquotedValue # <<>>
            prefix == IF prefixed THEN namespace.namespaceName.unquotedValue \o <<".">>
                      ELSE <<>>
        IN /\ hover.text = ShownUsage(prefix, hover.func)
           /\ hover.func = FunctionF(<<1, 2>>) =>
                  hover.text =
                      prefix \o <<"f", "(", "a", ",", " ", "b", " ", "[">> \o s_string
                             \o <<"]", ")">>

\* C9 witness: getUsage(ns, f(a, b: string)) has returned "ns.f(a, b [string])".
C9_Witness ==
    /\ hover # none
    /\ hover.op = "getUsage"
    /\ hover.namespace.kind = "UserFunctionNamespaceDefinition"
    /\ hover.namespace.namespaceName.unquotedValue = s_ns
    /\ hover.func = FunctionF(<<1, 2>>)
    /\ hover.text = <<"n", "s", ".", "f", "(", "a", ",", " ", "b", " ", "[">> \o s_string
                        \o <<"]", ")">>

\* C10: the hover text of a namespace is its name between "**", then
\* " User-defined namespace", then a line "No members" exactly when it has no
\* member, and otherwise a line "Members:" and one line "* <usage>" per
\* member, in declaration order, the usage being the member's, without a
\* namespace in front.
C10_NamespaceHoverText ==
    (hover # none /\ hover.op = "getHoverText") =>
        LET ns == hover.namespace.namespaceName.unquotedValue
            members == hover.namespace.members
            summary == <<"*", "*">> \o ns \o <<"*", "*">> \o s_UserDefinedNamespace
        IN hover.text =
               IF members = <<>>
               THEN summary \o <<"\n">> \o s_NoMembers
               ELSE summary \o <<"\n">> \o s_Members \o ShownBullets(members)

\* C10 witness: the namespace ns of h(a, b: string) and g() shows
\* "**ns** User-defined namespace", "Members:", "* h(a, b [string])", "* g()".
C10_Witness ==
    /\ hover # none
    /\ hover.op = "getHoverText"
    /\ hover.namespace = Namespace(s_ns, <<2, 1>>)
    /\ hover.text =
           <<"*", "*", "n", "s", "*", "*">> \o s_UserDefinedNamespace
               \o <<"\n">> \o s_Members
               \o <<"\n", "*", " ", "h", "(", "a", ",", " ", "b", " ", "[">> \o s_string
               \o <<"]", ")">>
               \o <<"\n", "*", " ", "g", "(", ")">>

\* The description is given and is not the empty string.
HasDescription(description) ==
    description.kind = "string" /\ Len(description.value) > 0

\* C11: the hover text of a built-in function is its usage between "**", and
\* that of a parameter reference its name between "**" then " (parameter)";
\* a line end and the description follow exactly when the description is
\* given and not empty, and nothing follows otherwise: the text then has
\* the length of the first line alone.
C11_DescriptionOnlyWhenGiven ==
    /\ (hover # none /\ hover.op = "FunctionInfo.getHoverText") =>
           LET line == <<"*", "*">> \o hover.usage \o <<"*", "*">>
           IN IF HasDescription(hover.description)
              THEN hover.text = line \o <<"\n">> \o hover.description.value
              ELSE hover.text = line /\ Len(hover.text) = Len(hover.usage) + 4
    /\ (hover # none /\ hover.op = "ParameterReferenceInfo.getHoverText") =>
           LET line == <<"*", "*">> \o hover.name \o <<"*", "*">> \o s_parameter
           IN IF HasDescription(hover.description)
              THEN hover.text = line \o <<"\n">> \o hover.description.value
              ELSE hover.text = line /\ Len(hover.text) = Len(hover.name) + 16

\* C11 witness: a built-in function without description shows "**f()**".
C11_Witness ==
    /\ hover # none
    /\ hover.op = "FunctionInfo.getHoverText"
    /\ hover.description = undefined
    /\ hover.text = <<"*", "*", "f", "(", ")", "*", "*">>

(***************************************************************************)
(* Properties of TopLevelCopyBlockVariableDefinition (SpecCopyBlock).      *)
(***************************************************************************)
\* definition.value is what the constructor makes of the `input` of the copy
\* block the definition is over.
ValueWrapsInput(definition) ==
    LET input == LoopVarInputOf(definition._copyVariableObject)
    IN IF input.kind \in {"null", "undefined"}
       THEN definition.value = null
       ELSE /\ definition.value.kind = "ArrayValue"
            /\ Len(definition.value.elements) = 1
            /\ definition.value.elements[1] = input

\* C12: in every step that leaves a TopLevelCopyBlockVariableDefinition in
\* place, its `value` is null when the copy block has no `input`, and
\* otherwise an array of one element, the `input` itself, whatever the copy
\* block's `count`; and a definition that was there before the step, reads
\* of the variable's value included, is the same after it, `value` and all.
C12_ValueIsOneInputForGood ==
    [][(created' # none /\ created'.ret.kind = "TopLevelCopyBlockVariableDefinition")
           => /\ ValueWrapsInput(created'.ret)
              /\ created # none => created'.ret = created.ret]_vars

\* C12 witness: the definition made of {"name": "disks", "count": 5,
\* "input": "X"} holds the array ["X"], and the variable has been read since.
C12_Witness ==
    /\ created # none
    /\ created.arg = LoopVarDisks
    /\ created.ret.kind = "TopLevelCopyBlockVariableDefinition"
    /\ created.ret.value.kind = "ArrayValue"
    /\ created.ret.value.elements = <<PString(56, s_X)>>
    /\ Len(reads) = MaxReads

(***************************************************************************)
(* Properties of TopLevelVariableDefinition's constructor (SpecConstruct). *)
(***************************************************************************)
\* C13: the constructor called with null or with no property raises an
\* assertion error: the caller holds no definition, so nothing is ever read
\* from one; and no read of a definition there is raises an error, the
\* constructor having returned for a property only.
C13_NullPropertyFailsFast ==
    /\ (constructed # none /\ constructed.arg.kind \in {"null", "undefined"}) =>
           /\ constructed.threw
           /\ constructed.error = "AssertionError"
           /\ _property = none /\ _nameValue = none
           /\ reads = <<>>
    /\ (constructed # none /\ ~constructed.threw) => constructed.arg.kind = "Property"
    /\ \A r \in 1..Len(reads) : ~reads[r].threw

\* C13 witness: new TopLevelVariableDefinition(null) has raised its error.
C13_Witness ==
    /\ constructed # none
    /\ constructed.arg = null
    /\ constructed.threw

(***************************************************************************)
(* Properties of CachedValue under interleaved callers (SpecRace).         *)
(***************************************************************************)
\* The callers whose calculateValue was invoked, and those of them whose
\* calculateValue returned.
Invokers == {c \in Callers : callers[c].invoked}
CompletedInvokers == {c \in Invokers : ~callers[c].calculateValue.threw}
\* Every caller that has tested the flag has run on past line 219's call.
PastCalculate == \A c \in Callers : callers[c].pc # "219"

\* C14: when a caller has tested the flag while another was between testing
\* and setting it, calculateValue is invoked more than once, as soon as the
\* callers have run line 219; whenever the assignment of line 219 has run
\* more than once, the cell holds what the latest assignment stored, not
\* what an earlier one did; and when no caller has tested the flag inside
\* another's window, at most one invocation of calculateValue has returned.
C14_NoAtMostOnceUnderContention ==
    /\ (overlapped /\ PastCalculate) => Cardinality(Invokers) > 1
    /\ Len(stores) > 1 =>
           /\ cell._value = callers[stores[Len(stores)]].result
           /\ \A i \in 1..(Len(stores) - 1) : cell._value # callers[stores[i]].result
    /\ ~overlapped => Cardinality(CompletedInvokers) <= 1

\* C14 witness: two callers have both computed and returned; caller 2's
\* assignment came last, so the cell holds 2, and caller 1 got its own 1.
C14_Witness ==
    /\ overlapped
    /\ stores = <<1, 2>>
    /\ callers[1].pc = "returned" /\ callers[2].pc = "returned"
    /\ callers[1].invoked /\ callers[2].invoked
    /\ callers[1].ret = JsNumber(1)
    /\ cell._value = JsNumber(2)

(***************************************************************************)
(* startArmLanguageServer.  A path is the sequence of its segments; the    *)
(* file system says what there is at each path it knows: "none", "file"    *)
(* or "dir".                                                               *)
(***************************************************************************)
languageServerName == "ARM Language Server"
languageServerDllName == "Microsoft.ArmLanguageServer.dll"
languageServerFolderName == "LanguageServerBin"

\* path.join(directory, name)
pathJoin(directory, name) == directory \o <<name>>
\* fs.existsSync(path)
existsSync(fileSystem, path) ==
    path \in DOMAIN fileSystem /\ fileSystem[path] # "none"
\* fs.statSync(path).isDirectory(), for a path that exists
isDirectory(fileSystem, path) == fileSystem[path] = "dir"

\* context.asAbsolutePath(relativePath)
ExtensionPath == <<"extension">>
asAbsolutePath(relativePath) == pathJoin(ExtensionPath, relativePath)

\* The callback of startArmLanguageServer, run on a platform with the
\* configuration `armTools`, on a file system, with ext.addCompletionDiagnostic, and with a
\* client whose start() throws or not: the error thrown if any, whether the
\* LanguageClient was created and with which server arguments, whether its
\* disposable was pushed, and the paths existsSync has answered true for.
startArmLanguageServer(platform, armTools, fileSystem, addCompletionDiagnostic, startThrows) ==
    LET serverExe == IF platform = "win32" THEN "dotnet.exe" ELSE "dotnet"
        configured == armTools.languageServer_path
        none_ == [threw |-> TRUE, error |-> "", client |-> none, args |-> <<>>,
                  subscribed |-> FALSE, verified |-> {}]
        couldNotFind(verified) ==
            [none_ EXCEPT !.error = "Couldn't find the ARM language server",
                          !.verified = verified]
        launch(serverDllPath, verified) ==
            LET trace == armTools.languageServer_traceLevel
                commonArgs ==
                    <<serverDllPath, "--logLevel", trace>>
                        \o (IF armTools.languageServer_waitForDebugger = TRUE
                            THEN <<"--wait-for-debugger">> ELSE <<>>)
                        \o (IF addCompletionDiagnostic
                            THEN <<"--verbose-diagnostics">> ELSE <<>>)
                client == [kind |-> "LanguageClient", name |-> languageServerName,
                           command |-> serverExe, args |-> commonArgs]
            IN IF startThrows
               THEN [threw |-> TRUE,
                     error |-> "ARM Language Server: unexpectedly failed to start.",
                     client |-> client, args |-> commonArgs, subscribed |-> FALSE,
                     verified |-> verified]
               ELSE [threw |-> FALSE, error |-> "", client |-> client,
                     args |-> commonArgs, subscribed |-> TRUE, verified |-> verified]
    IN IF configured.kind # "string" \/ configured.value = <<>>
       THEN LET serverFolderPath == asAbsolutePath(languageServerFolderName)
                serverDllPath == pathJoin(serverFolderPath, languageServerDllName)
            IN IF ~existsSync(fileSystem, serverFolderPath)
               THEN couldNotFind({})
               ELSE IF ~existsSync(fileSystem, serverDllPath)
                    THEN couldNotFind({serverFolderPath})
                    ELSE launch(pathJoin(serverFolderPath, languageServerDllName),
                                {serverFolderPath, serverDllPath})
       ELSE LET serverDllPath == configured.value
            IN IF ~existsSync(fileSystem, serverDllPath)
               THEN couldNotFind({})
               ELSE IF isDirectory(fileSystem, serverDllPath)
                    THEN launch(pathJoin(serverDllPath, languageServerDllName),
                                {serverDllPath})
                    ELSE launch(serverDllPath, {serverDllPath})

\* The paths of the model: the extension's server folder and the DLL in it,
\* a DLL the user may point to, a folder the user may point to and the DLL in
\* it.
ServerFolder == asAbsolutePath(languageServerFolderName)
ServerDll == pathJoin(ServerFolder, languageServerDllName)
UserDll == <<"opt", "My.dll">>
UserFolder == <<"opt", "server">>
UserFolderDll == pathJoin(UserFolder, languageServerDllName)
Paths == {ServerFolder, ServerDll, UserDll, UserFolder, UserFolderDll}

\* A file system has something in a folder only if the folder is there.
IsFileSystem(f) ==
    /\ f[ServerDll] # "none" => f[ServerFolder] = "dir"
    /\ f[UserFolderDll] # "none" => f[UserFolder] = "dir"

\* The setting is unset, no string, the empty string, a file path or a
\* folder path.
Settings ==
    {undefined, JsNumber(1), JsString(<<>>), JsString(UserDll), JsString(UserFolder)}

InitServer ==
    /\ cell = NewCachedValue /\ log = <<>> /\ NoCallers
    /\ InitDefinition(NoCopyProperty)
    /\ created = none
    /\ hover = none
    /\ setting \in Settings
    /\ \E serverFolder \in {"none", "file", "dir"}, serverDll \in {"none", "file"},
          userDll \in {"none", "file"}, userFolder \in {"none", "dir"},
          userFolderDll \in {"none", "file"} :
           LET f == (ServerFolder :> serverFolder) @@ (ServerDll :> serverDll)
                        @@ (UserDll :> userDll) @@ (UserFolder :> userFolder)
                        @@ (UserFolderDll :> userFolderDll)
           IN IsFileSystem(f) /\ files = f
    /\ started = none

\* startArmLanguageServer(context), once
StartArmLanguageServer(platform, waitForDebugger, addCompletionDiagnostic, startThrows) ==
    /\ started = none
    /\ started' = startArmLanguageServer(
                      platform,
                      [languageServer_path |-> setting,
                       languageServer_traceLevel |-> "Warning",
                       languageServer_waitForDebugger |-> waitForDebugger],
                      files, addCompletionDiagnostic, startThrows)
    /\ UNCHANGED <<files, setting>>
    /\ UNCHANGED <<cell, log, constructed, _property, _nameValue, allocs, reads, created,
                   hover, raceVars>>

NextServer ==
    \E platform \in {"win32", "linux"},
       waitForDebugger, addCompletionDiagnostic, startThrows \in BOOLEAN :
        StartArmLanguageServer(platform, waitForDebugger, addCompletionDiagnostic,
                               startThrows)
SpecServer == InitServer /\ [][NextServer]_vars

(***************************************************************************)
(* Properties of startArmLanguageServer (SpecServer).                      *)
(***************************************************************************)
\* C15: whenever startArmLanguageServer has created the language client, the
\* first server argument is a path that existsSync has answered true for,
\* and there is something at it.
C15_ClientOnlyWithVerifiedDll ==
    (started # none /\ started.client # none) =>
        /\ started.args[1] \in started.verified
        /\ existsSync(files, started.args[1])

\* C15, the failing case: the setting names a folder that is there and holds
\* no server DLL, and the client has been created and started on the DLL path in that folder.
C15_FolderWithoutDllStarted ==
    /\ started # none
    /\ setting = JsString(UserFolder)
    /\ files[UserFolder] = "dir"
    /\ files[UserFolderDll] = "none"
    /\ started.client # none
    /\ ~started.threw
    /\ started.args[1] = UserFolderDll

====
